---- MODULE Spec2Model ----
(***************************************************************************)
(* Model of onyx's project configuration core (src/src/project.rs):        *)
(* Runner validation and entry resolution, Config / Application merging    *)
(* and Project::load / Project::merge, as driven by process() in lib.rs.   *)
(*                                                                         *)
(* Strings the code inspects (runner aliases and run tokens: to_lowercase, *)
(* starts_with, slicing) are sequences of one-character strings.  Strings  *)
(* the code only clones and compares (config keys, config values, app      *)
(* names) are TLA+ strings.  HashMap<String, X> is a function whose        *)
(* DOMAIN is the key set.  Option<T> is None or Some(x).                   *)
(***************************************************************************)
EXTENDS Integers, Sequences, FiniteSets, TLC

VARIABLES
    pc,        \* position in process(): "parsed", "loaded", "merged", "ran",
               \* "load_failed", "merge_failed"; "config" when Config::merge is driven alone
    doc,       \* the root document as deserialized by Project::load
    files,     \* the deserialized include documents, files[i] is the file doc.include[i]
    loaded,    \* None, or the Result of Project::load
    merged,    \* None, or the Result of Project::merge
    run,       \* None, or [args, result] of Runner::entries_to_run
    cfg,       \* the receiver of Config::merge
    cfgcall,   \* None, or [self, other, key, result] of the last Config::merge call
    ser        \* None, or [value, out]: a ConfigValue's text and, once serialized, its output

vars == <<pc, doc, files, loaded, merged, run, cfg, cfgcall, ser>>

----------------------------------------------------------------------------
(* Bounds of the model *)

MaxValid == 2
MaxDefault == 2
MaxArgs == 2
MaxIncludes == 2
MaxText == 3

----------------------------------------------------------------------------
(* Option and Result *)

None == [some |-> FALSE]
Some(x) == [some |-> TRUE, val |-> x]

Ok(x) == [ok |-> TRUE, val |-> x]
\* errs is the set of errors the call may return: iterating a HashMap visits
\* the keys in an unspecified order, so the first failing key is any of them.
Fail(errs) == [ok |-> FALSE, errs |-> errs]

SeqsUpTo(S, n) == UNION {[1..k -> S] : k \in 0..n}

EmptyMap == [x \in {} |-> x]
SingletonMaps(D, R) == {[x \in {d} |-> r] : d \in D, r \in R}

----------------------------------------------------------------------------
(* Strings *)

Str_test == <<"t", "e", "s", "t">>
Str_Test == <<"T", "e", "s", "t">>
Str_t == <<"t">>
Str_T == <<"T">>

LowerChar(c) ==
    CASE c = "T" -> "t"
      [] c = "E" -> "e"
      [] c = "S" -> "s"
      [] OTHER -> c

to_lowercase(s) == [i \in DOMAIN s |-> LowerChar(s[i])]

starts_with(s, c) == Len(s) >= 1 /\ s[1] = c

----------------------------------------------------------------------------
(* RunnerEntry and Runner *)

RunnerEntry(l, s) == [long |-> l, short |-> s]

\* impl From<T: AsRef<str>> for RunnerEntry, and visit_str of its Deserialize
RunnerEntryFrom(s) == RunnerEntry(s, s)

Runner(v, d) == [valid |-> v, default |-> d]

EntryMatches(entry, v) ==
    \/ to_lowercase(entry.long) = to_lowercase(v.long)
    \/ to_lowercase(entry.short) = to_lowercase(v.short)

\* (mutation of validate_entry: the entry itself is returned, not the matched one)
validate_entry_Unnormalized(runner, entry) ==
    LET hits == {i \in DOMAIN runner.valid : EntryMatches(entry, runner.valid[i])}
    IN  IF hits = {}
        THEN Fail({[kind |-> "InvalidRunnerEntry", name |-> entry.long]})
        ELSE Ok(entry)

validate_entry(runner, entry) ==
    LET hits == {i \in DOMAIN runner.valid : EntryMatches(entry, runner.valid[i])}
    IN  IF hits = {}
        THEN Fail({[kind |-> "InvalidRunnerEntry", name |-> entry.long]})
        ELSE Ok(runner.valid[CHOOSE i \in hits : \A j \in hits : i <= j])

\* (mutation of CollectResults: the failed items are dropped and the rest returned)
CollectResults_Partial(rs) ==
    LET IsOk(r) == r.ok
        good == SelectSeq(rs, IsOk)
    IN  Ok([i \in DOMAIN good |-> good[i].val])

\* collect::<Result<Vec<_>>>() of a sequence of Results: the first Err in
\* order, else the values
CollectResults(rs) ==
    LET bad == {i \in DOMAIN rs : ~rs[i].ok}
    IN  IF bad = {}
        THEN Ok([i \in DOMAIN rs |-> rs[i].val])
        ELSE rs[CHOOSE i \in bad : \A j \in bad : i <= j]

validate_and_normalize(runner) ==
    LET r == CollectResults([i \in DOMAIN runner.default |->
                                validate_entry(runner, runner.default[i])])
    IN  IF r.ok THEN Ok(Runner(runner.valid, r.val)) ELSE r

ProcessArg(runner, arg) ==
    LET item == IF starts_with(arg, "+")
                THEN <<"+", validate_entry(runner, RunnerEntryFrom(Tail(arg)))>>
                ELSE IF starts_with(arg, "-")
                THEN <<"-", validate_entry(runner, RunnerEntryFrom(Tail(arg)))>>
                ELSE <<"+", validate_entry(runner, RunnerEntryFrom(arg))>>
    IN  IF item[2].ok THEN Ok([sign |-> item[1], entry |-> item[2].val])
        ELSE item[2]

\* (mutation of EntriesKept: the added entries are chained before the defaults)
EntriesKept_AddsFirst(runner, processed) ==
    LET IsAdd(item) == item.sign = "+"
        IsRemove(item) == item.sign = "-"
        adds == SelectSeq(processed, IsAdd)
        rems == SelectSeq(processed, IsRemove)
        to_add == [i \in DOMAIN adds |-> adds[i].entry]
        to_remove == {rems[i].entry : i \in DOMAIN rems}
        Keep(e) == e \notin to_remove
    IN  SelectSeq(to_add \o runner.default, Keep)

\* (mutation of EntriesKept: the removal filters the added entries only)
EntriesKept_DefaultsKept(runner, processed) ==
    LET IsAdd(item) == item.sign = "+"
        IsRemove(item) == item.sign = "-"
        adds == SelectSeq(processed, IsAdd)
        rems == SelectSeq(processed, IsRemove)
        to_add == [i \in DOMAIN adds |-> adds[i].entry]
        to_remove == {rems[i].entry : i \in DOMAIN rems}
        Keep(e) == e \notin to_remove
    IN  runner.default \o SelectSeq(to_add, Keep)

\* default.iter().chain(to_add.iter()).filter(|arg| !to_remove.contains(&arg)):
\* the entries kept, before they are mapped to their long alias
EntriesKept(runner, processed) ==
    LET IsAdd(item) == item.sign = "+"
        IsRemove(item) == item.sign = "-"
        adds == SelectSeq(processed, IsAdd)
        rems == SelectSeq(processed, IsRemove)
        to_add == [i \in DOMAIN adds |-> adds[i].entry]
        to_remove == {rems[i].entry : i \in DOMAIN rems}
        Keep(e) == e \notin to_remove
    IN  SelectSeq(runner.default \o to_add, Keep)

entries_to_run(runner, args) ==
    LET processed == CollectResults([i \in DOMAIN args |-> ProcessArg(runner, args[i])])
    IN  IF ~processed.ok THEN processed
        ELSE LET kept == EntriesKept(runner, processed.val)
             IN  Ok([i \in DOMAIN kept |-> kept[i].long])

----------------------------------------------------------------------------
(* Config and Application *)

Map(m) == [kind |-> "Map", map |-> m]
Single(v) == [kind |-> "Single", val |-> v]

Application(c) == [config |-> c]

\* (mutation of InsertAll: a key already in the map keeps its value)
InsertAll_KeepExisting(map, other) ==
    [k \in DOMAIN map \cup DOMAIN other |->
        IF k \in DOMAIN map THEN map[k] ELSE other[k]]

\* for (key, val) in other { map.insert(key, val) }
InsertAll(map, other) ==
    [k \in DOMAIN map \cup DOMAIN other |->
        IF k \in DOMAIN other THEN other[k] ELSE map[k]]

\* the state of a &mut self call: the receiver after it, and what it returned
Call(self, result) == [self |-> self, result |-> result]
Unit == <<>>

\* (mutation of Config::merge: a Single receiver is replaced by a Map argument)
ConfigMerge_Coercing(self, other, key) ==
    IF other.kind = "Map"
    THEN IF self.kind = "Map"
         THEN Call(Map(InsertAll(self.map, other.map)), Ok(Unit))
         ELSE Call(other, Ok(Unit))
    ELSE IF self.kind = "Map"
         THEN Call(self, Fail({[kind |-> "IncompatibleConfigType", key |-> key]}))
         ELSE Call(Single(other.val), Ok(Unit))

\* Config::merge
ConfigMerge(self, other, key) ==
    IF other.kind = "Map"
    THEN IF self.kind = "Map"
         THEN Call(Map(InsertAll(self.map, other.map)), Ok(Unit))
         ELSE Call(self, Fail({[kind |-> "IncompatibleConfigType", key |-> key]}))
    ELSE IF self.kind = "Map"
         THEN Call(self, Fail({[kind |-> "IncompatibleConfigType", key |-> key]}))
         ELSE Call(Single(other.val), Ok(Unit))

\* Application::merge
ApplicationMerge(self, other) ==
    IF ~other.config.some THEN Call(self, Ok(Unit))
    ELSE IF ~self.config.some
    THEN Call(Application(Some(other.config.val)), Ok(Unit))
    ELSE LET m == self.config.val
             config == other.config.val
             both == DOMAIN m \cap DOMAIN config
             bad == {k \in both : ~ConfigMerge(m[k], config[k], k).result.ok}
         IN  IF bad # {}
             THEN Call(self, Fail(UNION {ConfigMerge(m[k], config[k], k).result.errs : k \in bad}))
             ELSE Call(Application(Some(
                          [k \in DOMAIN m \cup DOMAIN config |->
                              IF k \in both THEN ConfigMerge(m[k], config[k], k).self
                              ELSE IF k \in DOMAIN config THEN config[k]
                              ELSE m[k]])),
                       Ok(Unit))

----------------------------------------------------------------------------
(* Project and ProjectInclude *)

ProjectInclude(app, apps, runner) == [app |-> app, apps |-> apps, runner |-> runner]

RunnerInclude(d) == [default |-> d]

\* (mutation of MergeApp: the includes are applied last to first)
RECURSIVE MergeApp_LastFirst(_, _)
MergeApp_LastFirst(acc, included) ==
    IF included = <<>> THEN Ok(acc)
    ELSE LET c == ApplicationMerge(acc, included[Len(included)].app)
         IN  IF c.result.ok
             THEN MergeApp_LastFirst(c.self, SubSeq(included, 1, Len(included) - 1))
             ELSE c.result

\* the app field of Project::merge: the includes' apps merged into acc in order
RECURSIVE MergeApp(_, _)
MergeApp(acc, included) ==
    IF included = <<>> THEN Ok(acc)
    ELSE LET c == ApplicationMerge(acc, Head(included).app)
         IN  IF c.result.ok THEN MergeApp(c.self, Tail(included)) ELSE c.result

\* (mutation of MergeIncApps: an application already present is replaced, not merged)
MergeIncApps_Replacing(apps, inc_apps) ==
    Ok([n \in DOMAIN apps \cup DOMAIN inc_apps |->
            IF n \in DOMAIN inc_apps THEN inc_apps[n] ELSE apps[n]])

\* one include's apps applied to Some(apps)
MergeIncApps(apps, inc_apps) ==
    LET both == DOMAIN apps \cap DOMAIN inc_apps
        bad == {n \in both : ~ApplicationMerge(apps[n], inc_apps[n]).result.ok}
    IN  IF bad # {}
        THEN Fail(UNION {ApplicationMerge(apps[n], inc_apps[n]).result.errs : n \in bad})
        ELSE Ok([n \in DOMAIN apps \cup DOMAIN inc_apps |->
                    IF n \in both THEN ApplicationMerge(apps[n], inc_apps[n]).self
                    ELSE IF n \in DOMAIN inc_apps THEN inc_apps[n]
                    ELSE apps[n]])

\* (mutation of MergeApps: with no apps yet, every declaring include replaces them)
RECURSIVE MergeApps_LastReplaces(_, _)
MergeApps_LastReplaces(apps, included) ==
    IF included = <<>> THEN Ok(apps)
    ELSE IF Head(included).apps.some
    THEN MergeApps_LastReplaces(Head(included).apps, Tail(included))
    ELSE MergeApps_LastReplaces(apps, Tail(included))

\* the apps field of Project::merge
RECURSIVE MergeApps(_, _)
MergeApps(apps, included) ==
    IF included = <<>> THEN Ok(apps)
    ELSE LET inc == Head(included)
         IN  IF apps.some
             THEN IF inc.apps.some
                  THEN LET r == MergeIncApps(apps.val, inc.apps.val)
                       IN  IF r.ok THEN MergeApps(Some(r.val), Tail(included)) ELSE r
                  ELSE MergeApps(apps, Tail(included))
             ELSE MergeApps(inc.apps, Tail(included))

\* the default list Project::merge hands to the merged Runner
MergeDefault(self) ==
    IF self.included.some
    THEN LET included == self.included.val
             declaring == {i \in DOMAIN included : included[i].runner.some}
         IN  IF declaring # {}
             THEN included[CHOOSE i \in declaring : \A j \in declaring : j <= i].runner.val.default
             ELSE self.runner.default
    ELSE self.runner.default

\* the runner field of Project::merge
MergeRunner(self) ==
    validate_and_normalize(Runner(self.runner.valid, MergeDefault(self)))

\* (mutation of Project::merge: include and included are copied from the root)
ProjectMerge_KeepsIncludes(self) ==
    LET included == IF self.included.some THEN self.included.val ELSE <<>>
        app == MergeApp(self.app, included)
        apps == MergeApps(self.apps, included)
        runner == MergeRunner(self)
    IN  IF ~app.ok THEN app
        ELSE IF ~apps.ok THEN apps
        ELSE IF ~runner.ok THEN runner
        ELSE Ok([name |-> self.name,
                 description |-> self.description,
                 language |-> self.language,
                 container |-> self.container,
                 umbrella |-> self.umbrella,
                 include |-> self.include,
                 included |-> self.included,
                 app |-> app.val,
                 apps |-> apps.val,
                 runner |-> runner.val])

ProjectMerge(self) ==
    LET included == IF self.included.some THEN self.included.val ELSE <<>>
        app == MergeApp(self.app, included)
        apps == MergeApps(self.apps, included)
        runner == MergeRunner(self)
    IN  IF ~app.ok THEN app
        ELSE IF ~apps.ok THEN apps
        ELSE IF ~runner.ok THEN runner
        ELSE Ok([name |-> self.name,
                 description |-> self.description,
                 language |-> self.language,
                 container |-> self.container,
                 umbrella |-> self.umbrella,
                 include |-> <<>>,
                 included |-> None,
                 app |-> app.val,
                 apps |-> apps.val,
                 runner |-> runner.val])

\* Project::load once the root document is deserialized: the runner is
\* validated and normalized, then every included file is loaded in order
ProjectLoad(d, fs) ==
    LET r == validate_and_normalize(d.runner)
    IN  IF ~r.ok THEN r
        ELSE Ok([d EXCEPT !.runner = r.val,
                          !.included = Some([i \in DOMAIN d.include |-> fs[d.include[i]]])])

----------------------------------------------------------------------------
(* ConfigValue: impl Serialize, with the str::parse::<T>() it tries *)

DigitChars == {"0", "1", "2", "3", "4", "5", "6", "7", "8", "9"}
DigitOf(c) == CHOOSE n \in 0..9 : <<"0", "1", "2", "3", "4", "5", "6", "7", "8", "9">>[n + 1] = c
IsDigits(s) == \A i \in DOMAIN s : s[i] \in DigitChars

RECURSIVE DigitsValue(_)
DigitsValue(s) ==
    IF s = <<>> THEN 0
    ELSE DigitsValue(SubSeq(s, 1, Len(s) - 1)) * 10 + DigitOf(s[Len(s)])

\* str::parse::<u64>(): an optional +, then one digit or more.  Every text of
\* the model is far shorter than the 20 digits of u64::MAX, so none overflows.
ParseU64(s) ==
    LET digits == IF starts_with(s, "+") THEN Tail(s) ELSE s
    IN  IF digits # <<>> /\ IsDigits(digits) THEN Ok(DigitsValue(digits))
        ELSE Fail({"ParseIntError"})

\* str::parse::<i64>(): an optional + or -, then one digit or more
ParseI64(s) ==
    LET signed == starts_with(s, "+") \/ starts_with(s, "-")
        digits == IF signed THEN Tail(s) ELSE s
    IN  IF digits # <<>> /\ IsDigits(digits)
        THEN Ok(IF starts_with(s, "-") THEN 0 - DigitsValue(digits) ELSE DigitsValue(digits))
        ELSE Fail({"ParseIntError"})

\* the part of s before the first character of cs, and the part after it
Before(s, cs) ==
    LET at == {i \in DOMAIN s : s[i] \in cs}
    IN  IF at = {} THEN s ELSE SubSeq(s, 1, (CHOOSE i \in at : \A j \in at : i <= j) - 1)
After(s, cs) ==
    LET at == {i \in DOMAIN s : s[i] \in cs}
    IN  IF at = {} THEN <<>> ELSE SubSeq(s, (CHOOSE i \in at : \A j \in at : i <= j) + 1, Len(s))
Has(s, cs) == \E i \in DOMAIN s : s[i] \in cs

\* str::parse::<f64>() on decimal texts: an optional sign, digits with an
\* optional point (a digit on one side of it at least), an optional exponent
\* of e or E, an optional sign and one digit or more.  The texts of the model
\* spell neither inf nor NaN.
ParseF64(s) ==
    LET signed == starts_with(s, "+") \/ starts_with(s, "-")
        body == IF signed THEN Tail(s) ELSE s
        mantissa == Before(body, {"e", "E"})
        exponent == After(body, {"e", "E"})
        expsigned == starts_with(exponent, "+") \/ starts_with(exponent, "-")
        expdigits == IF expsigned THEN Tail(exponent) ELSE exponent
        integral == Before(mantissa, {"."})
        fractional == After(mantissa, {"."})
    IN  IF /\ IsDigits(integral)
           /\ IsDigits(fractional)
           /\ integral \o fractional # <<>>
           /\ Has(body, {"e", "E"}) => (expdigits # <<>> /\ IsDigits(expdigits))
        THEN Ok(s)
        ELSE Fail({"ParseFloatError"})

Str_true == <<"t", "r", "u", "e">>
Str_false == <<"f", "a", "l", "s", "e">>

\* str::parse::<bool>()
ParseBool(s) ==
    IF s = Str_true THEN Ok(TRUE)
    ELSE IF s = Str_false THEN Ok(FALSE)
    ELSE Fail({"ParseBoolError"})

Output(type, value) == [type |-> type, value |-> value]

\* (mutation of serialize: the float is tried before the integers)
ConfigValueSerialize_FloatFirst(s) ==
    IF ParseF64(s).ok THEN Output("f64", ParseF64(s).val)
    ELSE IF ParseU64(s).ok THEN Output("u64", ParseU64(s).val)
    ELSE IF ParseI64(s).ok THEN Output("i64", ParseI64(s).val)
    ELSE IF ParseBool(s).ok THEN Output("bool", ParseBool(s).val)
    ELSE Output("str", s)

\* impl Serialize for ConfigValue
ConfigValueSerialize(s) ==
    IF ParseU64(s).ok THEN Output("u64", ParseU64(s).val)
    ELSE IF ParseI64(s).ok THEN Output("i64", ParseI64(s).val)
    ELSE IF ParseF64(s).ok THEN Output("f64", ParseF64(s).val)
    ELSE IF ParseBool(s).ok THEN Output("bool", ParseBool(s).val)
    ELSE Output("str", s)

----------------------------------------------------------------------------
(* The documents the model draws its inputs from *)

\* runner entries as a document writes them: the bare strings "Test" and "t",
\* and the map {long: Test, short: t}
EntryU == {RunnerEntryFrom(Str_Test), RunnerEntryFrom(Str_t), RunnerEntry(Str_Test, Str_t)}

ValidU == SeqsUpTo(EntryU, MaxValid)
DefaultU == SeqsUpTo(EntryU, MaxDefault)

\* run tokens: +name, -name and name, the names in another case than the aliases
TokenU == {<<"+">> \o n : n \in {Str_test, Str_T}}
          \cup {<<"-">> \o n : n \in {Str_test, Str_T}}
          \cup {Str_test, Str_T}
ArgsU == SeqsUpTo(TokenU, MaxArgs)

Keys == {"db", "key"}
SubKeys == {"host", "port"}
Values == {"80", "8080"}

\* config sections with at most one sub-key, applications with at most one
\* section: merging them builds the larger ones
ConfigU == {Single(v) : v \in Values}
           \cup {Map(m) : m \in {EmptyMap} \cup SingletonMaps(SubKeys, Values)}
AppU == {Application(None)}
        \cup {Application(Some(m)) : m \in {EmptyMap} \cup SingletonMaps(Keys, ConfigU)}

AppNames == {"web", "api"}
UmbrellaAppU == {Application(None)}
                \cup {Application(Some(m)) :
                        m \in SingletonMaps({"key"}, {Single("80"), Single("8080"), Map(EmptyMap)})}
AppsU == {None} \cup {Some(m) : m \in UNION {[N -> UmbrellaAppU] : N \in SUBSET AppNames}}

\* the deserialized root document; include holds the indices of its files
RootDoc(app, apps, runner, n) ==
    [name |-> "onyx",
     description |-> Some("An Onyx project"),
     language |-> None,
     container |-> "None",
     umbrella |-> apps.some,
     include |-> [i \in 1..n |-> i],
     included |-> None,
     app |-> app,
     apps |-> apps,
     runner |-> runner]

----------------------------------------------------------------------------
(* process() of lib.rs: Project::load, Project::merge, Runner::entries_to_run *)

\* the results a call may return: one per error it may fail with
Outcomes(r) == IF r.ok THEN {r} ELSE {[ok |-> FALSE, err |-> e] : e \in r.errs}

Load ==
    /\ pc = "parsed"
    /\ \E r \in Outcomes(ProjectLoad(doc, files)) :
          /\ loaded' = r
          /\ pc' = IF r.ok THEN "loaded" ELSE "load_failed"
    /\ UNCHANGED <<doc, files, merged, run, cfg, cfgcall, ser>>

Merge ==
    /\ pc = "loaded"
    /\ \E r \in Outcomes(ProjectMerge(loaded.val)) :
          /\ merged' = r
          /\ pc' = IF r.ok THEN "merged" ELSE "merge_failed"
    /\ UNCHANGED <<doc, files, loaded, run, cfg, cfgcall, ser>>

EntriesToRun ==
    /\ pc = "merged"
    /\ \E args \in ArgsU :
          \E r \in Outcomes(entries_to_run(merged.val.runner, args)) :
              run' = [args |-> args, result |-> r]
    /\ pc' = "ran"
    /\ UNCHANGED <<doc, files, loaded, merged, cfg, cfgcall, ser>>

\* Config::merge called on the receiver cfg
ConfigMergeCall ==
    /\ pc = "config"
    /\ \E other \in ConfigU, key \in Keys :
          LET c == ConfigMerge(cfg, other, key)
          IN  \E r \in Outcomes(c.result) :
                /\ cfg' = c.self
                /\ cfgcall' = [self |-> cfg, other |-> other, key |-> key, result |-> r]
    /\ UNCHANGED <<pc, doc, files, loaded, merged, run, ser>>

NoIncludeFiles == <<>>
EmptyRunner == Runner(<<>>, <<>>)

InitIdle ==
    /\ loaded = None
    /\ merged = None
    /\ run = None
    /\ cfgcall = None
    /\ ser = None

\* a root document with a runner and no include: the run command
InitRun ==
    /\ pc = "parsed"
    /\ \E v \in ValidU, d \in DefaultU :
          doc = RootDoc(Application(None), None, Runner(v, d), 0)
    /\ files = NoIncludeFiles
    /\ cfg = Single("80")
    /\ InitIdle

\* a root document and includes that declare runner defaults
\* (an include declares no runner, an empty default list or one entry)
IncDefaultU == {<<>>} \cup {<<e>> : e \in EntryU}
IncRunnerU ==
    {ProjectInclude(Application(None), None, r) :
        r \in {None} \cup {Some(RunnerInclude(d)) : d \in IncDefaultU}}

InitRunner ==
    /\ pc = "parsed"
    /\ files \in SeqsUpTo(IncRunnerU, MaxIncludes)
    /\ \E v \in ValidU, d \in DefaultU :
          doc = RootDoc(Application(None), None, Runner(v, d), Len(files))
    /\ cfg = Single("80")
    /\ InitIdle

\* a root document and includes that declare app config
InitApp ==
    /\ pc = "parsed"
    /\ files \in SeqsUpTo({ProjectInclude(a, None, None) : a \in AppU}, MaxIncludes)
    /\ \E a \in AppU : doc = RootDoc(a, None, EmptyRunner, Len(files))
    /\ cfg = Single("80")
    /\ InitIdle

\* a root document and includes that declare apps
InitApps ==
    /\ pc = "parsed"
    /\ files \in SeqsUpTo({ProjectInclude(Application(None), as, None) : as \in AppsU},
                           MaxIncludes)
    /\ \E as \in AppsU : doc = RootDoc(Application(None), as, EmptyRunner, Len(files))
    /\ cfg = Single("80")
    /\ InitIdle

\* Config::merge alone
InitConfig ==
    /\ pc = "config"
    /\ cfg \in ConfigU
    /\ doc = RootDoc(Application(None), None, EmptyRunner, 0)
    /\ files = NoIncludeFiles
    /\ InitIdle

\* the texts a ConfigValue may hold: the short texts over digits, signs, the
\* point and the exponent letter, and the scalars a document is likely to hold
TextChars == {"0", "1", "-", "+", ".", "e"}
Str_abc == <<"a", "b", "c">>
Str_True == <<"T", "r", "u", "e">>
Str_10 == <<"1", "0">>
Str_42 == <<"4", "2">>
Str_3_14 == <<"3", ".", "1", "4">>
TextU == SeqsUpTo(TextChars, MaxText)
         \cup {Str_abc, Str_true, Str_false, Str_True, Str_10, Str_42, Str_3_14}

\* a ConfigValue is serialized
SerializeValue ==
    /\ pc = "value"
    /\ ~ser.out.some
    /\ ser' = [ser EXCEPT !.out = Some(ConfigValueSerialize(ser.value))]
    /\ UNCHANGED <<pc, doc, files, loaded, merged, run, cfg, cfgcall>>

\* ConfigValue serialization alone
InitSerialize ==
    /\ pc = "value"
    /\ \E v \in TextU : ser = [value |-> v, out |-> None]
    /\ cfg = Single("80")
    /\ doc = RootDoc(Application(None), None, EmptyRunner, 0)
    /\ files = NoIncludeFiles
    /\ loaded = None
    /\ merged = None
    /\ run = None
    /\ cfgcall = None

Next == Load \/ Merge \/ EntriesToRun
NextProject == Load \/ Merge
NextConfig == ConfigMergeCall
NextSerialize == SerializeValue

Spec == InitRun /\ [][Next]_vars
SpecRunner == InitRunner /\ [][NextProject]_vars
SpecApp == InitApp /\ [][NextProject]_vars
SpecApps == InitApps /\ [][NextProject]_vars
SpecConfig == InitConfig /\ [][NextConfig]_vars
SpecSerialize == InitSerialize /\ [][NextSerialize]_vars

----------------------------------------------------------------------------
(* Runner::entries_to_run: what the run command is specified to return *)

TokenIsRemove(tok) == tok # <<>> /\ Head(tok) = "-"
TokenName(tok) == IF tok # <<>> /\ Head(tok) \in {"+", "-"} THEN Tail(tok) ELSE tok

\* the alias name equals an alias of v, case-insensitively
NameHits(name, v) ==
    to_lowercase(name) \in {to_lowercase(v.long), to_lowercase(v.short)}
Resolvable(valid, name) == \E i \in DOMAIN valid : NameHits(name, valid[i])
\* the first entry of valid the name hits
Resolved(valid, name) ==
    valid[CHOOSE i \in DOMAIN valid :
            /\ NameHits(name, valid[i])
            /\ \A j \in 1..(i - 1) : ~NameHits(name, valid[j])]

RECURSIVE AddedEntries(_, _)
AddedEntries(valid, args) ==
    IF args = <<>> THEN <<>>
    ELSE IF TokenIsRemove(Head(args)) THEN AddedEntries(valid, Tail(args))
    ELSE <<Resolved(valid, TokenName(Head(args)))>> \o AddedEntries(valid, Tail(args))

RemovedEntries(valid, args) ==
    {Resolved(valid, TokenName(args[i])) : i \in {j \in DOMAIN args : TokenIsRemove(args[j])}}

RECURSIVE LongsWithout(_, _)
LongsWithout(entries, removed) ==
    IF entries = <<>> THEN <<>>
    ELSE IF Head(entries) \in removed THEN LongsWithout(Tail(entries), removed)
    ELSE <<Head(entries).long>> \o LongsWithout(Tail(entries), removed)

RunRunner == merged.val.runner
AllTokensResolvable ==
    \A i \in DOMAIN run.args : Resolvable(RunRunner.valid, TokenName(run.args[i]))
Elements(seq) == {seq[i] : i \in DOMAIN seq}

\* C1: when every token name matches an entry of valid, entries_to_run
\* returns the long aliases of default, in order, followed by the entries the
\* add tokens resolve to (first entry of valid hit by long or short alias,
\* case-insensitively), in token order, without the entries a remove token
\* resolves to, and with no other deduplication.
C1_EntriesToRunResult ==
    (pc = "ran" /\ AllTokensResolvable) =>
        run.result = Ok(LongsWithout(
                          RunRunner.default \o AddedEntries(RunRunner.valid, run.args),
                          RemovedEntries(RunRunner.valid, run.args)))

\* C1 witness: two defaults in order, one of them added again and so listed
\* twice, the other one removed by a token
C1_Witness ==
    /\ pc = "ran"
    /\ run.result.ok
    /\ Len(RunRunner.default) = 2
    /\ RunRunner.default[1] # RunRunner.default[2]
    /\ \E i \in DOMAIN run.args : TokenIsRemove(run.args[i])
    /\ \E i \in DOMAIN run.args : ~TokenIsRemove(run.args[i])
    /\ Len(run.result.val) = 2
    /\ run.result.val[1] = run.result.val[2]

\* C2 as claimed: after a remove token resolving to e, the result holds no
\* occurrence of e's long alias.
C2_NoLongAliasOfRemoved ==
    (pc = "ran" /\ run.result.ok) =>
        \A i \in DOMAIN run.args :
            TokenIsRemove(run.args[i]) =>
                Resolved(RunRunner.valid, TokenName(run.args[i])).long
                    \notin Elements(run.result.val)

\* C2 amended: after a remove token resolving to e, an occurrence of e's long
\* alias in the result is the long alias of a different entry of valid that
\* has the same long alias, is in default or added, and is not removed; with
\* no such entry the result holds no occurrence of e's long alias.
C2_RemovedEntryCancelled ==
    (pc = "ran" /\ run.result.ok) =>
        \A i \in DOMAIN run.args :
            TokenIsRemove(run.args[i]) =>
                LET e == Resolved(RunRunner.valid, TokenName(run.args[i]))
                IN  e.long \in Elements(run.result.val) =>
                        \E v \in Elements(RunRunner.valid) :
                            /\ v # e
                            /\ v.long = e.long
                            /\ v \in Elements(RunRunner.default)
                                    \cup Elements(AddedEntries(RunRunner.valid, run.args))
                            /\ v \notin RemovedEntries(RunRunner.valid, run.args)

\* C2 witness: the entry is added by its short alias and removed by its long
\* alias, it is also a default, and nothing is left
C2_Witness ==
    /\ pc = "ran"
    /\ run.args = <<(<<"+">> \o Str_T), (<<"-">> \o Str_test)>>
    /\ RunRunner.valid = <<RunnerEntry(Str_Test, Str_t)>>
    /\ RunRunner.default = <<RunnerEntry(Str_Test, Str_t)>>
    /\ run.result = Ok(<<>>)

\* C3: entries_to_run fails, returning no entry list, exactly when some
\* token's name matches no entry of valid.
C3_AllOrNothing ==
    pc = "ran" =>
        /\ run.result.ok <=> AllTokensResolvable
        /\ ~run.result.ok =>
              /\ DOMAIN run.result = {"ok", "err"}
              /\ run.result.err.kind = "InvalidRunnerEntry"

\* C3 witness: a valid add token followed by an unmatched remove token
C3_Witness ==
    /\ pc = "ran"
    /\ ~run.result.ok
    /\ Len(run.args) = 2
    /\ Resolvable(RunRunner.valid, TokenName(run.args[1]))
    /\ ~TokenIsRemove(run.args[1])
    /\ TokenIsRemove(run.args[2])
    /\ ~Resolvable(RunRunner.valid, TokenName(run.args[2]))

----------------------------------------------------------------------------
(* Project::load and Project::merge: the runner *)

LoadedRoot == loaded.val
Included == LoadedRoot.included.val
Effective == merged.val

\* the entry matches v by its long or by its short alias, case-insensitively
EntryHits(entry, v) ==
    \/ to_lowercase(entry.long) = to_lowercase(v.long)
    \/ to_lowercase(entry.short) = to_lowercase(v.short)
Unmatched(valid, entries) ==
    {i \in DOMAIN entries : \A j \in DOMAIN valid : ~EntryHits(entries[i], valid[j])}
\* every entry replaced by the first entry of valid it matches
Normalized(valid, entries) ==
    [i \in DOMAIN entries |->
        valid[CHOOSE j \in DOMAIN valid :
                /\ EntryHits(entries[i], valid[j])
                /\ \A k \in 1..(j - 1) : ~EntryHits(entries[i], valid[k])]]

DeclaringRunner == {i \in DOMAIN Included : Included[i].runner.some}
LastDeclaringRunner == CHOOSE i \in DeclaringRunner : \A j \in DeclaringRunner : j <= i

\* C4: the merged runner.default is the default list of the last include
\* that declares a runner, normalized against valid, and the root's
\* runner.default when no include declares a runner.
C4_DefaultOfLastInclude ==
    pc = "merged" =>
        Effective.runner.default =
            IF DeclaringRunner # {}
            THEN Normalized(LoadedRoot.runner.valid,
                            Included[LastDeclaringRunner].runner.val.default)
            ELSE LoadedRoot.runner.default

\* the list Project::merge validates
ValidatedByMerge ==
    IF DeclaringRunner # {}
    THEN Included[LastDeclaringRunner].runner.val.default
    ELSE LoadedRoot.runner.default

\* C5: Project::load and Project::merge fail when the default list they
\* validate holds an entry that matches no entry of valid, and on success
\* every entry of runner.default is an entry of runner.valid.
C5_DefaultDrawnFromValid ==
    /\ pc # "parsed" =>
          /\ loaded.ok <=> Unmatched(doc.runner.valid, doc.runner.default) = {}
          /\ loaded.ok =>
                Elements(LoadedRoot.runner.default) \subseteq Elements(LoadedRoot.runner.valid)
    /\ pc \in {"merged", "merge_failed"} =>
          /\ merged.ok <=> Unmatched(LoadedRoot.runner.valid, ValidatedByMerge) = {}
          /\ merged.ok =>
                Elements(Effective.runner.default) \subseteq Elements(Effective.runner.valid)

\* C5 witness: the root loads, with a default written by its short alias,
\* and the merge fails on the default entry of an include
C5_Witness ==
    /\ pc = "merge_failed"
    /\ doc.runner.default # <<>>
    /\ LoadedRoot.runner.default # doc.runner.default
    /\ DeclaringRunner # {}
    /\ merged.err.kind = "InvalidRunnerEntry"

----------------------------------------------------------------------------
(* Config::merge *)

Called == cfgcall # None

\* C6: merging a Map with a Single, in either order, fails with
\* IncompatibleConfigType carrying the key passed, and leaves the receiver as
\* it was.
C6_MapWithSingleFails ==
    (Called /\ cfgcall.self.kind # cfgcall.other.kind) =>
        /\ cfgcall.result = [ok |-> FALSE,
                             err |-> [kind |-> "IncompatibleConfigType", key |-> cfgcall.key]]
        /\ cfg = cfgcall.self

\* C6 witness: a Single receiver merged with a non-empty Map
C6_Witness ==
    /\ Called
    /\ cfgcall.self.kind = "Single"
    /\ cfgcall.other.kind = "Map"
    /\ DOMAIN cfgcall.other.map # {}
    /\ ~cfgcall.result.ok

\* C7: merging two configs of the same variant succeeds and is right-biased:
\* Map with Map gives the union of the key sets, other's value for every key
\* of other and self's value for every key only in self; Single with Single
\* gives other's value.
C7_RightBiasedMerge ==
    (Called /\ cfgcall.self.kind = cfgcall.other.kind) =>
        /\ cfgcall.result.ok
        /\ cfg.kind = cfgcall.self.kind
        /\ cfg.kind = "Single" => cfg.val = cfgcall.other.val
        /\ cfg.kind = "Map" =>
              /\ DOMAIN cfg.map = DOMAIN cfgcall.self.map \cup DOMAIN cfgcall.other.map
              /\ \A k \in DOMAIN cfgcall.other.map : cfg.map[k] = cfgcall.other.map[k]
              /\ \A k \in DOMAIN cfgcall.self.map \ DOMAIN cfgcall.other.map :
                    cfg.map[k] = cfgcall.self.map[k]

\* C7 witness: a two-key Map merged with a Map that overrides one of the keys
C7_Witness ==
    /\ Called
    /\ cfgcall.self.kind = "Map"
    /\ cfgcall.other.kind = "Map"
    /\ DOMAIN cfgcall.self.map = SubKeys
    /\ \E k \in DOMAIN cfgcall.other.map : cfgcall.other.map[k] # cfgcall.self.map[k]

----------------------------------------------------------------------------
(* Project::merge: app and apps *)

Last(S) == CHOOSE i \in S : \A j \in S : j <= i

\* eff is the per-key, later-wins combination of the applications docs[1],
\* docs[2], ...: it has a config when one of them has, its sections are the
\* sections of all of them, a Single section is the last one declared, a Map
\* section holds every sub-key declared, each with its last declared value
CombinedApp(eff, docs) ==
    LET with == {i \in DOMAIN docs : docs[i].config.some}
        Declares(k) == {i \in with : k \in DOMAIN docs[i].config.val}
        Section(i, k) == docs[i].config.val[k]
        DeclaresSub(k, sk) == {i \in Declares(k) : sk \in DOMAIN Section(i, k).map}
    IN  /\ eff.config.some <=> with # {}
        /\ eff.config.some =>
              /\ DOMAIN eff.config.val = UNION {DOMAIN docs[i].config.val : i \in with}
              /\ \A k \in DOMAIN eff.config.val :
                    LET last == Section(Last(Declares(k)), k)
                    IN  /\ eff.config.val[k].kind = last.kind
                        /\ last.kind = "Single" => eff.config.val[k] = last
                        /\ last.kind = "Map" =>
                              /\ DOMAIN eff.config.val[k].map =
                                    UNION {DOMAIN Section(i, k).map : i \in Declares(k)}
                              /\ \A sk \in DOMAIN eff.config.val[k].map :
                                    eff.config.val[k].map[sk] =
                                        Section(Last(DeclaresSub(k, sk)), k).map[sk]

AppDocs == <<LoadedRoot.app>> \o [i \in DOMAIN Included |-> Included[i].app]

\* two includes set the section k to different Single values
SetDifferently(k) ==
    /\ Len(Included) = 2
    /\ \A i \in {1, 2} :
          /\ Included[i].app.config.some
          /\ k \in DOMAIN Included[i].app.config.val
          /\ Included[i].app.config.val[k].kind = "Single"
    /\ Included[1].app.config.val[k] # Included[2].app.config.val[k]

Swapped == [LoadedRoot EXCEPT !.included = Some(<<Included[2], Included[1]>>)]

\* C8: the effective app config is the root's app with every include's app
\* merged into it in file order: sections declared once are carried
\* unchanged, an include without config changes nothing, a later include
\* wins over earlier ones and over the root (per sub-key for Map sections),
\* and swapping two includes that set a section to different values turns
\* the result into the other value.
C8_AppFoldInFileOrder ==
    pc = "merged" =>
        /\ CombinedApp(Effective.app, AppDocs)
        /\ \A k \in Keys :
              SetDifferently(k) =>
                  /\ Effective.app.config.val[k] = Included[2].app.config.val[k]
                  /\ ProjectMerge(Swapped).ok
                  /\ ProjectMerge(Swapped).val.app.config.val[k]
                        = Included[1].app.config.val[k]

\* C8 witness: a Map section of the root overridden per sub-key by two
\* includes in turn, the other sub-key coming from the first include only
C8_Witness ==
    /\ pc = "merged"
    /\ Len(Included) = 2
    /\ LoadedRoot.app.config.some
    /\ DOMAIN LoadedRoot.app.config.val = {"db"}
    /\ LoadedRoot.app.config.val["db"] = Map([sk \in {"port"} |-> "80"])
    /\ Included[1].app = Application(Some([k \in {"db"} |-> Map([sk \in {"host"} |-> "80"])]))
    /\ Included[2].app = Application(Some([k \in {"db"} |-> Map([sk \in {"port"} |-> "8080"])]))
    /\ Effective.app.config.val["db"].map["port"] = "8080"
    /\ Effective.app.config.val["db"].map["host"] = "80"

AppsDocs == <<LoadedRoot.apps>> \o [i \in DOMAIN Included |-> Included[i].apps]
DeclaringApps(docs) == {i \in DOMAIN docs : docs[i].some}

\* the applications the documents declare under the name n, in order
RECURSIVE AppsNamed(_, _)
AppsNamed(docs, n) ==
    IF docs = <<>> THEN <<>>
    ELSE IF Head(docs).some /\ n \in DOMAIN Head(docs).val
    THEN <<Head(docs).val[n]>> \o AppsNamed(Tail(docs), n)
    ELSE AppsNamed(Tail(docs), n)

\* apps is the union by application name of the apps maps of docs, the
\* applications of one name combined in order
UnionOfApps(apps, docs) ==
    /\ apps.some
    /\ DOMAIN apps.val = UNION {DOMAIN docs[i].val : i \in DeclaringApps(docs)}
    /\ \A n \in DOMAIN apps.val : CombinedApp(apps.val[n], AppsNamed(docs, n))

\* C9: when the root declares apps, the effective apps are the union by
\* application name of the root's and the includes' apps, an application
\* declared several times being merged in include order, and every
\* application name of the root stays present.
C9_AppsUnionByName ==
    (pc = "merged" /\ LoadedRoot.apps.some) =>
        /\ UnionOfApps(Effective.apps, AppsDocs)
        /\ DOMAIN LoadedRoot.apps.val \subseteq DOMAIN Effective.apps.val

\* C9 witness: the root declares web, an include declares web and api, and
\* the effective apps hold api and a web that is neither document's web
C9_Witness ==
    /\ pc = "merged"
    /\ LoadedRoot.apps.some
    /\ DOMAIN LoadedRoot.apps.val = {"web"}
    /\ \E i \in DOMAIN Included :
          /\ Included[i].apps.some
          /\ DOMAIN Included[i].apps.val = {"web", "api"}
          /\ Included[i].apps.val["web"].config.some
          /\ Included[i].apps.val["web"] # LoadedRoot.apps.val["web"]
    /\ DOMAIN Effective.apps.val = {"web", "api"}
    /\ Effective.apps.val["web"] # LoadedRoot.apps.val["web"]

IncludedApps == [i \in DOMAIN Included |-> Included[i].apps]

\* C10 as claimed: when the root declares no apps, the effective apps are
\* the apps map of one single include, and absent when no include declares
\* apps.
C10_AppsOfOneInclude ==
    (pc = "merged" /\ ~LoadedRoot.apps.some) =>
        IF DeclaringApps(IncludedApps) = {}
        THEN Effective.apps = None
        ELSE \E i \in DeclaringApps(IncludedApps) : Effective.apps = IncludedApps[i]

\* C10 amended: when the root declares no apps, the effective apps are
\* absent when no include declares apps, and otherwise the apps map of the
\* first include that declares apps with the apps of every later include
\* merged into it by application name; they equal one include's apps map
\* exactly when that include is the only one that declares apps.
C10_AppsFromFirstIncludeThenUnion ==
    (pc = "merged" /\ ~LoadedRoot.apps.some) =>
        /\ DeclaringApps(IncludedApps) = {} => Effective.apps = None
        /\ DeclaringApps(IncludedApps) # {} => UnionOfApps(Effective.apps, IncludedApps)
        /\ \A i \in DeclaringApps(IncludedApps) :
              DeclaringApps(IncludedApps) = {i} => Effective.apps = IncludedApps[i]

\* C10 witness: the root declares no apps, two includes declare one
\* application each, and the effective apps hold both
C10_Witness ==
    /\ pc = "merged"
    /\ ~LoadedRoot.apps.some
    /\ Len(Included) = 2
    /\ \A i \in {1, 2} : Included[i].apps.some
    /\ DOMAIN Included[1].apps.val = {"web"}
    /\ DOMAIN Included[2].apps.val = {"api"}
    /\ DOMAIN Effective.apps.val = {"web", "api"}

----------------------------------------------------------------------------
(* Project::merge: what it leaves alone *)

\* C11: Project::merge leaves the root project and its includes as they
\* were, also when it fails, and the project it returns has the root's
\* runner.valid, name, description, language, container and umbrella, an
\* empty include and no included.
C11_MergeFrame ==
    /\ [](pc = "merged" =>
            /\ Effective.runner.valid = LoadedRoot.runner.valid
            /\ Effective.name = LoadedRoot.name
            /\ Effective.description = LoadedRoot.description
            /\ Effective.language = LoadedRoot.language
            /\ Effective.container = LoadedRoot.container
            /\ Effective.umbrella = LoadedRoot.umbrella
            /\ Effective.include = <<>>
            /\ Effective.included = None)
    /\ [][pc = "loaded" => (loaded' = loaded /\ files' = files /\ doc' = doc)]_vars

\* C11 witness: a merge of a root with a non-empty alias table and two
\* includes, the last of which declares a default
C11_Witness ==
    /\ pc = "merged"
    /\ LoadedRoot.runner.valid # <<>>
    /\ Len(LoadedRoot.include) = 2
    /\ Included = files
    /\ Included[2].runner.some
    /\ Included[2].runner.val.default # <<>>


\* a - followed by one digit or more
NegativeIntegerText(s) == starts_with(s, "-") /\ Tail(s) # <<>> /\ IsDigits(Tail(s))

\* whether the parse of text v as type t succeeds
Accepts(t, v) ==
    CASE t = "u64" -> ParseU64(v).ok
      [] t = "i64" -> ParseI64(v).ok
      [] t = "f64" -> ParseF64(v).ok
      [] t = "bool" -> ParseBool(v).ok

TrialOrder == <<"u64", "i64", "f64", "bool">>

\* C12: a serialized ConfigValue has the first type of unsigned integer,
\* signed integer, floating point, boolean whose parse accepts its text, and
\* is a string when none does; "10", "42" and "1" come out as the unsigned
\* integers 10, 42 and 1, a negative integer text as a signed integer, "3.14"
\* as a float, only "true" and "false" as booleans, and "abc" as the string.
C12_SerializeTrialOrder ==
    (pc = "value" /\ ser.out.some) =>
        LET v == ser.value
            out == ser.out.val
            first == {i \in DOMAIN TrialOrder :
                        /\ Accepts(TrialOrder[i], v)
                        /\ \A j \in 1..(i - 1) : ~Accepts(TrialOrder[j], v)}
        IN  /\ out.type = IF first = {} THEN "str" ELSE TrialOrder[CHOOSE i \in first : TRUE]
            /\ v = Str_10 => out = Output("u64", 10)
            /\ v = Str_42 => out = Output("u64", 42)
            /\ v = <<"1">> => out = Output("u64", 1)
            /\ NegativeIntegerText(v) => out = Output("i64", 0 - DigitsValue(Tail(v)))
            /\ v = Str_3_14 => out = Output("f64", Str_3_14)
            /\ out.type = "bool" <=> v \in {Str_true, Str_false}
            /\ v = Str_true => out = Output("bool", TRUE)
            /\ v = Str_abc => out = Output("str", Str_abc)
            /\ out.type = "str" => out.value = v

C12_Witness ==
    /\ pc = "value"
    /\ ser.out.some
    /\ ser.value = <<"-", "1", "0">>
    /\ ser.out.val = Output("i64", 0 - 10)

\* C13: validate_and_normalize applied to the runner of a loaded root
\* succeeds and returns the same runner, and a merge with no include
\* declaring a runner leaves runner.default as the load made it.
C13_NormalizeIdempotent ==
    (pc \in {"loaded", "merged", "merge_failed"} /\ loaded.ok) =>
        /\ validate_and_normalize(LoadedRoot.runner) = Ok(LoadedRoot.runner)
        /\ (pc = "merged" /\ DeclaringRunner = {}) =>
                Effective.runner.default = LoadedRoot.runner.default

============================================================================
